---- MODULE Spec2Model ----
(***************************************************************************)
(* Model of src/src/App.js: the React component App that resizes a picked  *)
(* or captured image, posts it to the detection backend and draws the      *)
(* returned boxes on a canvas stacked over the displayed image.            *)
(*                                                                         *)
(* The file holds two variants of the component (lines 6-237 and lines     *)
(* 245-427).  The variable `variant` says which one is running; it never   *)
(* changes.  Every handler is one action, and the render that follows the  *)
(* handler's state changes, with the draw effect it triggers, is part of   *)
(* the same action (Render).                                               *)
(***************************************************************************)
EXTENDS Integers, Sequences, FiniteSets, TLC

VARIABLES
    variant,        \* 1: App of lines 6-237, 2: App of lines 245-427
    imageSrc,       \* useState(null): the displayed image's URL
    predictions,    \* useState([]): the detection list
    loading,        \* useState(false)
    isCameraOpen,   \* useState(false)
    tasks,          \* the invocations of handleFileChange / capture, in order
    img,            \* the <img ref={imgRef}> element
    canvas,         \* the <canvas ref={canvasRef}> element
    crashed,        \* an error thrown while rendering has unmounted the tree
    predictionsOf,  \* history: the task whose response set the current list
    lastRender,     \* history: what the last step's render found changed
    arrived         \* history: the detections field of the response the last
                    \* step received, if it received one

vars == <<variant, imageSrc, predictions, loading, isCameraOpen, tasks, img,
          canvas, crashed, predictionsOf, lastRender, arrived>>

-----------------------------------------------------------------------------
(* Bounds of the model *)

\* how many times the user picks a file or captures a photo
MaxOps == 2
\* the longest detection list a response carries
MaxDets == 2

(* Program constants *)

\* resizeImage's default maxWidth
MaxWidth == 640
\* a canvas element's size before anything sets it
DefaultCanvasWidth == 300
DefaultCanvasHeight == 150
\* the image width at which the draw effect's scale factor is 1
ReferenceWidth == 600

\* Lengths that need not be whole pixels (line width, font size, label
\* position) are counted in sub-pixels, Sub to the pixel; every such length
\* of the model is a whole number of them.
Sub == 5 * ReferenceWidth

Max(a, b) == IF a >= b THEN a ELSE b

-----------------------------------------------------------------------------
(* Inputs *)

\* The images a user picks or the camera captures.  ok = FALSE is a source
\* the browser cannot decode (for capture: getScreenshot() gave null).
Sources ==
    { [w |-> 1200, h |-> 800, ok |-> TRUE],
      [w |-> 320,  h |-> 240, ok |-> TRUE],
      [w |-> 0,    h |-> 0,   ok |-> FALSE] }

\* The detections a response may list; confidence is in thousandths.
Detections ==
    { [box |-> <<100, 100, 300, 400>>, class_name |-> "box", confidence |-> 870],
      [box |-> <<0, 0, 50, 40>>, class_name |-> "pallet", confidence |-> 505] }

RECURSIVE SeqsUpTo(_, _)
SeqsUpTo(S, n) ==
    IF n = 0 THEN { <<>> }
    ELSE LET shorter == SeqsUpTo(S, n - 1)
         IN shorter \cup { Append(s, x) : s \in { t \in shorter : Len(t) = n - 1 }, x \in S }

\* the lists a response can carry: a detector reports a detection once
DetectionLists ==
    { s \in SeqsUpTo(Detections, MaxDets) :
          \A i, j \in DOMAIN s : i # j => s[i] # s[j] }

-----------------------------------------------------------------------------
(* Values *)

\* imageSrc = null
NullSrc == [of |-> 0, w |-> 0, h |-> 0, ok |-> FALSE, null |-> TRUE]

\* a URL: the task it belongs to and the image behind it
Url(t, w, h, ok) == [of |-> t, w |-> w, h |-> h, ok |-> ok, null |-> FALSE]

\* a JavaScript array, and the value undefined
Array(s) == [tag |-> "array", items |-> s]
Undefined == [tag |-> "undefined", items |-> <<>>]

\* no response in this step
NoResponse == [tag |-> "none", items |-> <<>>]

\* a step without a render
NoRender == [changed |-> {}, effect |-> FALSE]

\* imgRef.current / canvasRef.current = null
NoImg == [mounted |-> FALSE, loaded |-> FALSE, naturalWidth |-> 0, naturalHeight |-> 0]
NoCanvas == [mounted |-> FALSE, width |-> 0, height |-> 0, ops |-> <<>>,
             lineWidth |-> 0, font |-> 0]

\* freshly created elements
FreshImg == [mounted |-> TRUE, loaded |-> FALSE, naturalWidth |-> 0, naturalHeight |-> 0]
\* (a new 2d context has lineWidth 1 and the font "10px sans-serif")
FreshCanvas == [mounted |-> TRUE, width |-> DefaultCanvasWidth,
                height |-> DefaultCanvasHeight, ops |-> <<>>,
                lineWidth |-> 1 * Sub, font |-> 10 * Sub]

TaskIds == 1 .. Len(tasks)

-----------------------------------------------------------------------------
(* resizeImage, lines 19-44 (and 257-274) *)

\* resizeHeight with the height rounded up, and with the scale inverted
resizeHeight_ceil(W, H, T) == (H * T + W - 1) \div W
resizeHeight_inverted(W, H, T) == (H * W) \div T

\* canvas.height = img.height * scale, scale = maxWidth / img.width: the
\* product is a fraction, and a canvas height is an integer: the assignment
\* drops the fractional part.
resizeHeight(W, H, T) == (H * T) \div W

\* the size of the image resizeImage resolves with
resizeImage(src, maxWidth) == [w |-> maxWidth, h |-> resizeHeight(src.w, src.h, maxWidth)]

-----------------------------------------------------------------------------
(* The draw effect, lines 110-162 (and 323-362) *)

Rect(x, y, w, h) == <<x, y, w, h>>

\* the canvas calls of one pass of predictions.forEach, lines 127-156 (the
\* first variant fills and strokes the box; the second, lines 336-356, only
\* strokes it)
\* drawBox with the box's far corner passed where fillRect and strokeRect
\* take a width and a height
drawBox_corners(v, pred) ==
    LET x1 == pred.box[1]
        y1 == pred.box[2]
    IN << [op |-> "fillRect", style |-> "rgba(0, 180, 255, 0.2)",
           rect |-> Rect(x1, y1, pred.box[3], pred.box[4])],
          [op |-> "strokeRect", style |-> "#00b4ff",
           rect |-> Rect(x1, y1, pred.box[3], pred.box[4])] >>
drawBox(v, pred) ==
    LET x1 == pred.box[1]
        y1 == pred.box[2]
        width == pred.box[3] - x1
        height == pred.box[4] - y1
    IN IF v = 1
       THEN << [op |-> "fillRect", style |-> "rgba(0, 180, 255, 0.2)",
                rect |-> Rect(x1, y1, width, height)],
               [op |-> "strokeRect", style |-> "#00b4ff",
                rect |-> Rect(x1, y1, width, height)] >>
       ELSE << [op |-> "strokeRect", style |-> "#00FF00",
                rect |-> Rect(x1, y1, width, height)] >>

\* Math.max(1, img.naturalWidth / 600), line 122, in sub-units (Sub to 1)
scaleFactor(W) == Max(1 * Sub, (W * Sub) \div ReferenceWidth)

\* the line width without its scaling
lineWidth_fixed(v, W) == 4 * Sub

\* ctx.lineWidth, in sub-pixels: Math.max(3, 4 * scaleFactor), line 123; the
\* second variant's is 4, line 343
lineWidth(v, W) ==
    IF v = 1 THEN Max(3 * Sub, 4 * scaleFactor(W)) ELSE 4 * Sub

\* the font size, in sub-pixels: Math.max(14, 20 * scaleFactor), line 124;
\* the second variant's is 18, line 354
fontSize(v, W) ==
    IF v = 1 THEN Max(14 * Sub, 20 * scaleFactor(W)) ELSE 18 * Sub

\* padding = 6 * scaleFactor, line 125, in sub-pixels
padding(W) == 6 * scaleFactor(W)

\* class_name.toUpperCase(), line 142
toUpperCase(name) ==
    CASE name = "box" -> "BOX"
      [] name = "pallet" -> "PALLET"

\* (confidence * 100).toFixed(0), lines 142 (348), of a confidence given in
\* thousandths: the nearest whole percentage, a half going up
toFixed0(confidence) == (confidence + 5) \div 10

\* the label of a detection, lines 142 (348)
labelText(v, pred) ==
    [name |-> IF v = 1 THEN toUpperCase(pred.class_name) ELSE pred.class_name,
     percent |-> toFixed0(pred.confidence)]

\* The top of the label's band, in sub-pixels.  First variant, lines
\* 145-148: textHeight = fontSize * 1.2, and the band goes above the box
\* when y1 - textHeight > 0, else inside it.  Second variant, line 350:
\* always 25 pixels above the box.
labelY(v, W, y1) ==
    IF v = 1
    THEN LET textHeight == (fontSize(v, W) * 6) \div 5
         IN IF y1 * Sub - textHeight > 0 THEN y1 * Sub - textHeight ELSE y1 * Sub
    ELSE (y1 - 25) * Sub

\* The calls that draw a detection's label, lines 141-155 (346-355): the
\* band (its width is the measured width of the text plus padding) and the
\* text.  x, y and height are in sub-pixels.
drawLabel(v, W, pred) ==
    LET x1 == pred.box[1]
        y1 == pred.box[2]
        text == labelText(v, pred)
    IN IF v = 1
       THEN << [op |-> "fillRect", style |-> "#00b4ff", text |-> text,
                x |-> x1 * Sub, y |-> labelY(v, W, y1),
                height |-> (fontSize(v, W) * 6) \div 5],
               [op |-> "fillText", style |-> "#FFFFFF", text |-> text,
                x |-> x1 * Sub + padding(W),
                y |-> labelY(v, W, y1) + padding(W) \div 2] >>
       ELSE << [op |-> "fillRect", style |-> "#00FF00", text |-> text,
                x |-> x1 * Sub, y |-> labelY(v, W, y1), height |-> 25 * Sub],
               [op |-> "fillText", style |-> "#000000", text |-> text,
                x |-> (x1 + 5) * Sub, y |-> (y1 - 7) * Sub] >>

\* predictions.forEach(...): the calls of every detection, in list order
RECURSIVE forEachDraw(_, _, _)
forEachDraw(v, W, preds) ==
    IF preds = <<>> THEN <<>>
    ELSE drawBox(v, Head(preds)) \o drawLabel(v, W, Head(preds))
             \o forEachDraw(v, W, Tail(preds))

\* One run of the effect on canvas cv with image element im.  The canvas
\* holds the calls made since it was last cleared, and the line width and
\* font size (in sub-pixels) its context was last given; setting its width
\* clears it.
\* the pass that draws over what the canvas holds
useEffectDraw_accumulates(v, cv, im, preds) ==
    IF im.mounted /\ cv.mounted /\ Len(preds.items) > 0
    THEN [cv EXCEPT !.width = im.naturalWidth,
                    !.height = im.naturalHeight,
                    !.ops = cv.ops \o forEachDraw(v, im.naturalWidth, preds.items),
                    !.lineWidth = lineWidth(v, im.naturalWidth),
                    !.font = fontSize(v, im.naturalWidth)]
    ELSE IF cv.mounted
         THEN [cv EXCEPT !.ops = <<>>]
         ELSE cv

\* the pass that does nothing when the list is empty
useEffectDraw_noClear(v, cv, im, preds) ==
    IF im.mounted /\ cv.mounted /\ Len(preds.items) > 0
    THEN [cv EXCEPT !.width = im.naturalWidth,
                    !.height = im.naturalHeight,
                    !.ops = forEachDraw(v, im.naturalWidth, preds.items),
                    !.lineWidth = lineWidth(v, im.naturalWidth),
                    !.font = fontSize(v, im.naturalWidth)]
    ELSE cv

useEffectDraw(v, cv, im, preds) ==
    IF im.mounted /\ cv.mounted /\ Len(preds.items) > 0
    THEN [cv EXCEPT !.width = im.naturalWidth,
                    !.height = im.naturalHeight,
                    !.ops = forEachDraw(v, im.naturalWidth, preds.items),
                    !.lineWidth = lineWidth(v, im.naturalWidth),
                    !.font = fontSize(v, im.naturalWidth)]
    ELSE IF cv.mounted
         THEN [cv EXCEPT !.ops = <<>>]
         ELSE cv

-----------------------------------------------------------------------------
(* Rendering, lines 164-236 (and 364-426) *)

\* {!isCameraOpen && imageSrc && (...)}: the result card, with the img and
\* the canvas, is in the tree
ResultCardShown(cam, src) == ~cam /\ ~src.null

\* The state slots a render finds changed after the setters in `set` were
\* called with the primed values.  React compares with Object.is: a new
\* array always differs from the old one, the other values differ when they
\* are not equal.
Changed(set) ==
    { slot \in set :
        CASE slot = "predictions" -> predictions' # Undefined \/ predictions # Undefined
          [] slot = "imageSrc" -> imageSrc' # imageSrc
          [] slot = "loading" -> loading' # loading
          [] slot = "isCameraOpen" -> isCameraOpen' # isCameraOpen }

\* }, [predictions, imageSrc]): the effect runs again when one of the two
\* changed, lines 162 (362)
effectDeps(changed) == "predictions" \in changed \/ "imageSrc" \in changed

\* The render after a handler has set the state to the primed values, and
\* the effect when its dependencies [predictions, imageSrc] changed.
\* predictions.length throws on undefined: in the effect (lines 114, 327)
\* and in the first variant's stats panel (line 221); an error thrown there
\* unmounts the tree.
Render(changed) ==
    LET depsChanged == effectDeps(changed)
        before == ResultCardShown(isCameraOpen, imageSrc)
        now == ResultCardShown(isCameraOpen', imageSrc')
        throws == /\ predictions' = Undefined
                  /\ now
                  /\ (depsChanged \/ (variant = 1 /\ ~loading'))
        im == IF ~before THEN FreshImg
              ELSE IF imageSrc' = imageSrc THEN img
              ELSE [img EXCEPT !.loaded = FALSE]
        cv == IF before THEN canvas ELSE FreshCanvas
    IN /\ crashed' = throws
       /\ lastRender' = [changed |-> changed, effect |-> depsChanged /\ ~throws]
       /\ IF throws \/ ~now
          THEN img' = NoImg /\ canvas' = NoCanvas
          ELSE /\ img' = im
               /\ canvas' = IF depsChanged
                            THEN useEffectDraw(variant, cv, im, predictions')
                            ELSE cv

\* The state setters a handler calls, and the render that follows.  After
\* the tree was unmounted the setters do nothing.
SetState(src, preds, of, ld, cam, set) ==
    IF crashed
    THEN /\ UNCHANGED <<imageSrc, predictions, predictionsOf, loading, isCameraOpen,
                        img, canvas, crashed>>
         /\ lastRender' = NoRender
    ELSE /\ imageSrc' = src
         /\ predictions' = preds
         /\ predictionsOf' = of
         /\ loading' = ld
         /\ isCameraOpen' = cam
         /\ Render(Changed(set))

-----------------------------------------------------------------------------
(* Initial state: the component as constructed, lines 7-15 *)

NewTask(src) ==
    [pc |-> "resizing", src |-> src,
     resized |-> [w |-> 0, h |-> 0], outcome |-> "none", alerts |-> 0]

Init ==
    /\ variant \in {1, 2}
    /\ imageSrc = NullSrc
    /\ predictions = Array(<<>>)
    /\ loading = FALSE
    /\ isCameraOpen = FALSE
    /\ tasks = <<>>
    /\ img = NoImg
    /\ canvas = NoCanvas
    /\ crashed = FALSE
    /\ predictionsOf = 0
    /\ lastRender = [changed |-> {}, effect |-> TRUE]
    /\ arrived = NoResponse

-----------------------------------------------------------------------------
(* Handlers *)

\* handleFileChange up to its first await, lines 47-54 (276-282)
handleFileChange(src) ==
    /\ ~crashed
    /\ Len(tasks) < MaxOps
    /\ tasks' = Append(tasks, NewTask(src))
    /\ LET t == Len(tasks) + 1
       IN IF variant = 1
          THEN SetState(imageSrc, Array(<<>>), 0, TRUE, isCameraOpen,
                        {"loading", "predictions"})
          ELSE SetState(Url(t, src.w, src.h, src.ok), Array(<<>>), 0, loading,
                        isCameraOpen, {"imageSrc", "predictions"})
    /\ arrived' = NoResponse
    /\ UNCHANGED variant

\* capture up to its first await, lines 66-73 (287-293); the Capture button
\* exists while the camera is open
capture(src) ==
    /\ ~crashed
    /\ isCameraOpen
    /\ Len(tasks) < MaxOps
    /\ tasks' = Append(tasks, NewTask(src))
    /\ LET t == Len(tasks) + 1
       IN IF variant = 1
          THEN SetState(imageSrc, Array(<<>>), 0, TRUE, FALSE,
                        {"isCameraOpen", "loading", "predictions"})
          ELSE SetState(IF src.ok THEN Url(t, src.w, src.h, TRUE) ELSE NullSrc,
                        Array(<<>>), 0, loading, FALSE,
                        {"imageSrc", "isCameraOpen", "predictions"})
    /\ arrived' = NoResponse
    /\ UNCHANGED variant

\* resizeImage resolves, and the handler runs on to the axios.post inside
\* sendImageToApi: lines 25-42, 57-61 / 78-85, 89-99 (261-272, 283 / 296-297,
\* 300-311).  A canvas of height 0 encodes to no image, so the URL made
\* from it shows nothing.
resizeResolved(t) ==
    /\ t \in TaskIds
    /\ tasks[t].pc = "resizing"
    /\ tasks[t].src.ok
    /\ LET r == resizeImage(tasks[t].src, MaxWidth)
       IN /\ tasks' = [tasks EXCEPT ![t].pc = "posted", ![t].resized = r]
          /\ IF variant = 1
             THEN SetState(Url(t, r.w, r.h, r.h > 0), predictions, predictionsOf,
                           loading, isCameraOpen, {"imageSrc"})
             ELSE SetState(imageSrc, predictions, predictionsOf, TRUE,
                           isCameraOpen, {"loading"})
    /\ arrived' = NoResponse
    /\ UNCHANGED variant

\* The source does not decode: img.onload never runs, resizeImage sets no
\* onerror and its promise never settles, lines 20-43 (258-273).
resizeNeverResolves(t) ==
    /\ t \in TaskIds
    /\ tasks[t].pc = "resizing"
    /\ ~tasks[t].src.ok
    /\ tasks' = [tasks EXCEPT ![t].pc = "hung"]
    /\ lastRender' = NoRender
    /\ arrived' = NoResponse
    /\ UNCHANGED <<variant, imageSrc, predictions, predictionsOf, loading,
                   isCameraOpen, img, canvas, crashed>>

\* the list merged into the one held, instead of replacing it
setPredictions_merged(held, dets) == Array(held.items \o dets)

\* setPredictions(response.data.detections), line 100 (312): the new list
\* is the response's, whatever list is held
setPredictions(held, dets) == Array(dets)

\* axios.post resolves with a body that has a detections list: lines 100,
\* 104-106 (312, 316-318)
responseArrives(t, dets) ==
    /\ t \in TaskIds
    /\ tasks[t].pc = "posted"
    /\ tasks' = [tasks EXCEPT ![t].pc = "done", ![t].outcome = "ok"]
    /\ SetState(imageSrc, setPredictions(predictions, dets), t, FALSE, isCameraOpen,
                {"predictions", "loading"})
    /\ arrived' = Array(dets)
    /\ UNCHANGED variant

\* axios.post resolves (status 2xx) with a body that has no detections
\* field: response.data.detections is undefined, nothing throws, lines 100,
\* 104-106 (312, 316-318)
responseMalformed(t) ==
    /\ t \in TaskIds
    /\ tasks[t].pc = "posted"
    /\ tasks' = [tasks EXCEPT ![t].pc = "done", ![t].outcome = "malformed"]
    /\ SetState(imageSrc, Undefined, t, FALSE, isCameraOpen, {"predictions", "loading"})
    /\ arrived' = Undefined
    /\ UNCHANGED variant

\* axios.post rejects (network error, or a status outside 2xx): catch and
\* finally, lines 101-106 (313-318)
responseFails(t, why) ==
    /\ t \in TaskIds
    /\ tasks[t].pc = "posted"
    /\ tasks' = [tasks EXCEPT ![t].pc = "failed", ![t].outcome = why,
                              ![t].alerts = @ + 1]
    /\ SetState(imageSrc, predictions, predictionsOf, FALSE, isCameraOpen, {"loading"})
    /\ arrived' = NoResponse
    /\ UNCHANGED variant

\* the camera button, line 182 (379)
toggleCamera ==
    /\ ~crashed
    /\ SetState(imageSrc, predictions, predictionsOf, loading, ~isCameraOpen,
                {"isCameraOpen"})
    /\ arrived' = NoResponse
    /\ UNCHANGED <<variant, tasks>>

\* the copy left empty
copyOf_empty(preds) == Array(<<>>)

\* [...predictions], line 216: a new array with the same detections
copyOf(preds) == Array(preds.items)

\* The displayed image finishes loading (or fails to).  First variant, line
\* 216: onLoad sets predictions to a copy of itself.  Second variant, lines
\* 410-415: onLoad sets the canvas size, which empties the canvas.
imgSettles ==
    /\ ~crashed
    /\ img.mounted
    /\ ~img.loaded
    /\ arrived' = NoResponse
    /\ UNCHANGED <<variant, tasks>>
    /\ LET im == [img EXCEPT !.loaded = TRUE,
                             !.naturalWidth = IF imageSrc.ok THEN imageSrc.w ELSE 0,
                             !.naturalHeight = IF imageSrc.ok THEN imageSrc.h ELSE 0]
       IN /\ img' = im
          /\ UNCHANGED <<imageSrc, predictionsOf, loading, isCameraOpen, crashed>>
          /\ IF ~imageSrc.ok
             THEN UNCHANGED <<predictions, canvas>> /\ lastRender' = NoRender
             ELSE IF variant = 1
             THEN IF predictions = Undefined
                  THEN UNCHANGED <<predictions, canvas>> /\ lastRender' = NoRender
                  ELSE /\ predictions' = copyOf(predictions)
                       /\ lastRender' = [changed |-> Changed({"predictions"}),
                                         effect |-> effectDeps(Changed({"predictions"}))]
                       /\ canvas' = IF lastRender'.effect
                                    THEN useEffectDraw(variant, canvas, im, predictions')
                                    ELSE canvas
             ELSE /\ UNCHANGED predictions
                  /\ lastRender' = NoRender
                  /\ canvas' = [FreshCanvas EXCEPT !.width = im.naturalWidth,
                                                   !.height = im.naturalHeight]

Next ==
    \/ \E src \in Sources : handleFileChange(src)
    \/ \E src \in Sources : capture(src)
    \/ \E t \in TaskIds : resizeResolved(t)
    \/ \E t \in TaskIds : resizeNeverResolves(t)
    \/ \E t \in TaskIds : \E dets \in DetectionLists : responseArrives(t, dets)
    \/ \E t \in TaskIds : responseMalformed(t)
    \/ \E t \in TaskIds : \E why \in {"network", "status"} : responseFails(t, why)
    \/ toggleCamera
    \/ imgSettles

Spec == Init /\ [][Next]_vars

\* the first variant alone, lines 6-237
InitV1 == Init /\ variant = 1
SpecV1 == InitV1 /\ [][Next]_vars

\* The first variant with the completions the browser guarantees: a decode
\* ends, a request ends (axios resolves or rejects), an image load ends.
\* Nothing makes the user act.
requestCompletes(t) ==
    \/ \E dets \in DetectionLists : responseArrives(t, dets)
    \/ responseMalformed(t)
    \/ \E why \in {"network", "status"} : responseFails(t, why)

Fairness ==
    /\ \A t \in 1 .. MaxOps :
          /\ WF_vars(resizeResolved(t))
          /\ WF_vars(resizeNeverResolves(t))
          /\ WF_vars(requestCompletes(t))
    /\ WF_vars(imgSettles)

FairSpecV1 == InitV1 /\ [][Next]_vars /\ Fairness

\* Sizes of source images for resizeImage: narrower than, equal to, next to
\* and wider than MaxWidth.  For each of them the double arithmetic of
\* img.height * (maxWidth / img.width) has the integer part of the exact
\* quotient.
ResizeSources ==
    { [w |-> w, h |-> h, ok |-> TRUE] :
        w \in {160, 320, 639, 640, 641, 1200, 3000}, h \in {1, 240, 800, 2000} }

\* The component right after two file picks in a row, each of any of
\* ResizeSources, before either image has been decoded.
InitResize ==
    /\ variant \in {1, 2}
    /\ \E first \in ResizeSources : \E second \in ResizeSources :
          /\ tasks = << NewTask(first), NewTask(second) >>
          /\ imageSrc = IF variant = 1 THEN NullSrc
                        ELSE Url(2, second.w, second.h, second.ok)
    /\ predictions = Array(<<>>)
    /\ loading = (variant = 1)
    /\ isCameraOpen = FALSE
    /\ img = IF variant = 1 THEN NoImg ELSE FreshImg
    /\ canvas = IF variant = 1 THEN NoCanvas ELSE FreshCanvas
    /\ crashed = FALSE
    /\ predictionsOf = 0
    /\ lastRender = [changed |-> {"predictions"} \cup (IF variant = 1 THEN {} ELSE {"imageSrc"}),
                     effect |-> TRUE]
    /\ arrived = NoResponse

\* from there: the resizes resolve, the displayed image loads, the user may
\* open and close the camera
NextResize ==
    \/ \E t \in TaskIds : resizeResolved(t)
    \/ toggleCamera
    \/ imgSettles

SpecResize == InitResize /\ [][NextResize]_vars

\* The draw effect reads img.naturalWidth whatever it is (line 122), though
\* the first variant's handlers only display images MaxWidth wide.  To see
\* the effect's arithmetic at other widths: natural sizes of a displayed
\* image on both sides of ReferenceWidth.
DrawSizes ==
    { [w |-> w, h |-> h] : w \in {1, 300, 599, 600, 601, 640, 1200, 3000},
                           h \in {200, 480} }

\* The first variant showing the result card for an image of any of
\* DrawSizes whose request is outstanding and whose <img> has not loaded.
InitDraw ==
    /\ variant = 1
    /\ \E size \in DrawSizes :
          /\ tasks = << [NewTask([w |-> size.w, h |-> size.h, ok |-> TRUE])
                            EXCEPT !.pc = "posted", !.resized = size] >>
          /\ imageSrc = Url(1, size.w, size.h, TRUE)
    /\ predictions = Array(<<>>)
    /\ loading = TRUE
    /\ isCameraOpen = FALSE
    /\ img = FreshImg
    /\ canvas = FreshCanvas
    /\ crashed = FALSE
    /\ predictionsOf = 0
    /\ lastRender = [changed |-> {"imageSrc"}, effect |-> TRUE]
    /\ arrived = NoResponse

\* from there: the response arrives, the displayed image loads, the user may
\* open and close the camera
NextDraw ==
    \/ \E t \in TaskIds : \E dets \in DetectionLists : responseArrives(t, dets)
    \/ toggleCamera
    \/ imgSettles

SpecDraw == InitDraw /\ [][NextDraw]_vars

-----------------------------------------------------------------------------
(* Properties *)

\* the request of task t has been posted (and may have completed)
Posted(t) == tasks[t].pc \in {"posted", "done", "failed"}

\* C1: a non-empty detection list is only ever held together with the
\* displayed image whose upload produced it.
C1_ListOnlyWithItsImage ==
    (predictions.tag = "array" /\ predictions.items # <<>>)
        => imageSrc.of = predictionsOf

\* C2: the image a pick or capture displays and the image it posts have the
\* same pixel width and height.
C2_DisplayedIsPosted ==
    \A t \in TaskIds :
        (Posted(t) /\ imageSrc.of = t)
            => /\ imageSrc.w = tasks[t].resized.w
               /\ imageSrc.h = tasks[t].resized.h

\* C3: whenever the loading flag is true it eventually returns to false.
C3_LoadingEventuallyCleared == loading ~> ~loading

\* C4: while a detection request is outstanding the loading flag is true, the
\* detection list is empty and no box is drawn.
C4_OutstandingMeansLoadingAndEmpty ==
    (\E t \in TaskIds : tasks[t].pc = "posted")
        => /\ loading
           /\ predictions = Array(<<>>)
           /\ canvas.ops = <<>>

\* C5: a request that ended with a network error, a non-2xx status or a
\* malformed body has raised exactly one alert and has installed no list.
C5_EveryFailureAlertsOnce ==
    \A t \in TaskIds :
        tasks[t].outcome \in {"network", "status", "malformed"}
            => /\ tasks[t].alerts = 1
               /\ predictionsOf # t

\* C6: a source that does not decode is reported to the user, is not
\* displayed and is not posted.
C6_DecodeFailureSurfaced ==
    \A t \in TaskIds :
        (tasks[t].pc = "hung")
            => /\ tasks[t].alerts >= 1
               /\ imageSrc.of # t
               /\ ~Posted(t)

\* C7: a step in which a request completes with a failure ends with the
\* loading flag false, the detection list empty, one alert raised by that
\* request and no box on the overlay, and changes no state but the loading
\* flag.
C7_FailureLeavesEmptyList ==
    [][\A t \in TaskIds :
          (tasks[t].pc = "posted" /\ tasks'[t].pc = "failed")
              => /\ ~loading'
                 /\ predictions' = Array(<<>>)
                 /\ tasks'[t].alerts = tasks[t].alerts + 1
                 /\ canvas'.ops = <<>>
                 /\ UNCHANGED <<imageSrc, predictions, isCameraOpen>>]_vars

\* the calls on the canvas that draw the boxes themselves
BoxFills(ops) ==
    SelectSeq(ops, LAMBDA c : c.op = "fillRect" /\ c.style = "rgba(0, 180, 255, 0.2)")
BoxStrokes(ops) == SelectSeq(ops, LAMBDA c : c.op = "strokeRect")

\* the rectangle of a raw box [x1, y1, x2, y2]: origin (x1, y1), width
\* x2 - x1, height y2 - y1
RawRect(box) == <<box[1], box[2], box[3] - box[1], box[4] - box[2]>>

\* C8: when the overlay holds boxes, its fills and its strokes are, in list
\* order, the rectangles of the raw boxes of the detection list, one of each
\* for every detection.
C8_BoxesDrawnFromRawCoordinates ==
    (canvas.mounted /\ canvas.ops # <<>>)
        => /\ predictions.tag = "array"
           /\ Len(BoxFills(canvas.ops)) = Len(predictions.items)
           /\ Len(BoxStrokes(canvas.ops)) = Len(predictions.items)
           /\ \A i \in 1 .. Len(predictions.items) :
                 /\ BoxFills(canvas.ops)[i].rect = RawRect(predictions.items[i].box)
                 /\ BoxStrokes(canvas.ops)[i].rect = RawRect(predictions.items[i].box)

\* C8's case: the list [pallet, box] is drawn, the box [100,100,300,400] as
\* the rectangle at (100,100) of width 200 and height 300
C8_Witness ==
    /\ canvas.mounted
    /\ Len(predictions.items) = 2
    /\ predictions.items[1].class_name = "pallet"
    /\ predictions.items[2].box = <<100, 100, 300, 400>>
    /\ Len(BoxFills(canvas.ops)) = 2
    /\ BoxFills(canvas.ops)[2].rect = <<100, 100, 200, 300>>

Abs(n) == IF n < 0 THEN -n ELSE n

\* C9: resizeImage gives width MaxWidth exactly and a height within one
\* pixel of H * MaxWidth / W (compared after multiplying by W).
C9_ResizeKeepsAspectRatio ==
    \A t \in TaskIds :
        Posted(t)
            => /\ tasks[t].resized.w = MaxWidth
               /\ Abs(tasks[t].resized.h * tasks[t].src.w - tasks[t].src.h * MaxWidth)
                      <= tasks[t].src.w

\* C9's case: a source narrower and a source wider than MaxWidth have both
\* been resized
C9_Witness ==
    /\ \E t \in TaskIds : Posted(t) /\ tasks[t].src.w < MaxWidth
    /\ \E t \in TaskIds : Posted(t) /\ tasks[t].src.w > MaxWidth

\* C10 as stated: a 1200 x 800 source is normalized to 640 x 533.
C10_Normalized640x533 ==
    \A t \in TaskIds :
        (Posted(t) /\ tasks[t].src.w = 1200 /\ tasks[t].src.h = 800)
            => tasks[t].resized = [w |-> 640, h |-> 533]

\* C10 as amended: a 1200 x 800 source is normalized to 640 x 426.
C10_Normalized640x426 ==
    \A t \in TaskIds :
        (Posted(t) /\ tasks[t].src.w = 1200 /\ tasks[t].src.h = 800)
            => tasks[t].resized = [w |-> 640, h |-> 426]

\* C10's case: a 1200 x 800 source has been resized
C10_Witness ==
    \E t \in TaskIds : Posted(t) /\ tasks[t].src.w = 1200 /\ tasks[t].src.h = 800

\* C11: whenever the draw effect has just run with the empty detection list
\* and the canvas exists, the canvas holds no box and no label, whatever it
\* held before; so a successful response with zero detections leaves a
\* cleared overlay.
C11_EmptyListClearsOverlay ==
    (lastRender.effect /\ canvas.mounted /\ predictions = Array(<<>>))
        => canvas.ops = <<>>

\* the effect has run on an existing canvas for a response with no detection
C11_Witness ==
    /\ lastRender.effect
    /\ canvas.mounted
    /\ arrived = Array(<<>>)
    /\ predictions = Array(<<>>)
    /\ canvas.ops = <<>>

\* the positions of the label bands among the calls on the canvas; each
\* follows the stroke of its box
LabelBands(ops) == { i \in DOMAIN ops : "height" \in DOMAIN ops[i] }

\* C12: the band of every drawn label (of a detection with y1 >= 0) has its
\* top at y1 - textHeight when that is positive and at y1 otherwise, so it
\* never starts above the top of the canvas, and for y1 = 0 it starts at the
\* top of the box, inside it.
C12_LabelNeverAboveTop ==
    \A i \in LabelBands(canvas.ops) :
        LET y1 == canvas.ops[i - 1].rect[2]
            band == canvas.ops[i]
        IN y1 >= 0 =>
              /\ band.y = IF y1 * Sub - band.height > 0
                          THEN y1 * Sub - band.height
                          ELSE y1 * Sub
              /\ band.y >= 0
              /\ (y1 = 0 => band.y = 0)

\* C13: when the draw effect has just run, running it once more with the
\* same image and the same detection list leaves the canvas as it is: its
\* size, its boxes and its labels are those of the single run.
C13_DrawPassIdempotent ==
    (lastRender.effect /\ canvas.mounted /\ predictions # Undefined)
        => useEffectDraw(variant, canvas, img, predictions) = canvas

\* the effect has just drawn the boxes of two detections
C13_Witness ==
    /\ lastRender.effect
    /\ canvas.mounted
    /\ predictions # Undefined
    /\ Len(predictions.items) = 2
    /\ canvas.ops = forEachDraw(variant, img.naturalWidth, predictions.items)

\* the step gives the detection list or the displayed image a new reference
DepsChange ==
    lastRender'.changed \cap {"predictions", "imageSrc"} # {}

\* C14: every step that changes the detection list or the reference of the
\* displayed image runs the draw effect, in that same step and with no
\* further action of the user.
C14_EveryChangeRedraws ==
    [][DepsChange => lastRender'.effect]_vars

\* C14 for the steps that install a list: a change of the list to an array,
\* or of the image, runs the draw effect
C14_EveryArrayChangeRedraws ==
    [][(DepsChange /\ predictions' # Undefined) => lastRender'.effect]_vars

\* C15: whenever boxes are drawn over an image of natural width W, the line
\* width is max(3, 4 * max(1, W / 600)) and the font size is
\* max(14, 20 * max(1, W / 600)) (both sides multiplied by 600, in
\* sub-pixels); neither is below its minimum, 3 and 14; both are
\* non-decreasing in W over DrawSizes; and both are strictly larger for
\* W = 3000 than for W = 300.
C15_ScaleAwareStrokeAndFont ==
    /\ canvas.ops # <<>> =>
          LET W == img.naturalWidth
          IN /\ canvas.lineWidth * 600 = Sub * Max(3 * 600, 4 * Max(600, W))
             /\ canvas.font * 600 = Sub * Max(14 * 600, 20 * Max(600, W))
             /\ canvas.lineWidth >= 3 * Sub
             /\ canvas.font >= 14 * Sub
             /\ \A size \in DrawSizes :
                   /\ size.w <= W => /\ lineWidth(variant, size.w) <= canvas.lineWidth
                                     /\ fontSize(variant, size.w) <= canvas.font
                   /\ size.w >= W => /\ lineWidth(variant, size.w) >= canvas.lineWidth
                                     /\ fontSize(variant, size.w) >= canvas.font
             /\ W = 300 => /\ canvas.lineWidth < lineWidth(variant, 3000)
                           /\ canvas.font < fontSize(variant, 3000)
             /\ W = 3000 => /\ canvas.lineWidth > lineWidth(variant, 300)
                            /\ canvas.font > fontSize(variant, 300)

\* boxes are drawn over a loaded image 3000 wide with a 20 pixel line and a
\* 100 pixel font
C15_Witness ==
    /\ canvas.ops # <<>>
    /\ img.loaded
    /\ img.naturalWidth = 3000
    /\ canvas.lineWidth = 20 * Sub
    /\ canvas.font = 100 * Sub

\* the same over an image 300 wide: a 4 pixel line and a 20 pixel font
C15_WitnessNarrow ==
    /\ canvas.ops # <<>>
    /\ img.loaded
    /\ img.naturalWidth = 300
    /\ canvas.lineWidth = 4 * Sub
    /\ canvas.font = 20 * Sub

\* the step is a file pick or a capture: it accepts a new source
Accepts == Len(tasks') > Len(tasks)

\* C16: the step that accepts a new source (file pick or capture) leaves the
\* detection list empty, with the source's resize not yet done and its
\* request not yet posted; and the step in which a response with a
\* detections list arrives leaves the held list equal to the response's list
\* (empty if that is empty), whatever list was held before.
C16_EmptiedAtPickReplacedAtResponse ==
    [][~crashed =>
          /\ Accepts =>
                /\ predictions' = Array(<<>>)
                /\ tasks'[Len(tasks')].pc = "resizing"
                /\ \A t \in DOMAIN tasks : tasks'[t] = tasks[t]
          /\ arrived'.tag = "array" => predictions' = Array(arrived'.items)]_vars

\* two responses with detections lists have arrived, the last one with one
\* detection, which is the list held
C16_Witness ==
    /\ ~crashed
    /\ Len(tasks) = 2
    /\ \A t \in TaskIds : tasks[t].outcome = "ok"
    /\ arrived.tag = "array"
    /\ Len(arrived.items) = 1
    /\ predictions = Array(arrived.items)

\* C17: in every state where the canvas shows at least one box, the canvas
\* has the natural width and height of the displayed image.
C17_CanvasSizedToImage ==
    (~crashed /\ canvas.mounted /\ BoxStrokes(canvas.ops) # <<>>)
        => /\ canvas.width = img.naturalWidth
           /\ canvas.height = img.naturalHeight

\* boxes are shown over a loaded image, on a canvas of the image's size
C17_Witness ==
    /\ ~crashed
    /\ canvas.mounted
    /\ BoxStrokes(canvas.ops) # <<>>
    /\ img.loaded
    /\ img.naturalWidth = MaxWidth
    /\ canvas.width = MaxWidth
    /\ canvas.height = img.naturalHeight

\* The step belongs to none of the four operations: every step of a file
\* pick, a capture, a response arrival or a response failure moves a task
\* on; the load of the displayed image and the camera button move none.
OtherStep == tasks' = tasks

Settled ==
    /\ ~crashed
    /\ ~isCameraOpen
    /\ predictions # Undefined
    /\ predictions.items # <<>>
    /\ \A t \in TaskIds : tasks[t].pc \in {"done", "failed", "hung"}
    /\ imageSrc.ok
    /\ img.mounted
    /\ img.loaded

\* the canvas shows the boxes and labels of the held list and nothing else,
\* at the natural size of the loaded image
ShowsTheList ==
    /\ canvas.mounted
    /\ canvas.ops = forEachDraw(variant, img.naturalWidth, predictions.items)
    /\ canvas.width = imageSrc.w
    /\ canvas.height = imageSrc.h

\* C19: once a response with a non-empty detection list is installed, the
\* camera is closed and the displayed image has loaded, in whichever order
\* the response and the load came, the canvas shows exactly the boxes of
\* that list at the size of the loaded image; as this holds in every such
\* state, no later event removes them.
C19_BoxesShownOnceSettled ==
    Settled => ShowsTheList

====
